---- MODULE Spec2Model ----
(***************************************************************************)
(* A model of bin/build_llms_txt.py, the generator of llms.txt.            *)
(*                                                                         *)
(* Text is a sequence of characters (one-character strings); a word that   *)
(* no pattern of the program looks into may stand as one element.          *)
(* Each pure function of the script is an operator computed the way the    *)
(* code computes it; each has a specification that draws its inputs from   *)
(* a bounded family and applies it.                                        *)
(***************************************************************************)
EXTENDS Integers, Sequences, FiniteSets, TLC

VARIABLES
    content,        \* clean_markdown_content: the argument
    passes,         \* clean_markdown_content: applications so far
    once,           \* clean_markdown_content(content)
    twice,          \* clean_markdown_content(clean_markdown_content(content))
    val_content,    \* validate_llms_txt: what the file at file_path holds
    val_done,       \* validate_llms_txt: whether it has returned
    validation_results, \* validate_llms_txt: the record it returns
    found,          \* extract_key_info_from_content: the matches of each pattern
    harvested,      \* extract_key_info_from_content: whether it has returned
    key_info,       \* extract_key_info_from_content: the record it returns
    html_content,   \* the text extractors: the page, as the tree html.parser builds
    extracted,      \* which of the two extractors have returned
    flat_text,      \* extract_content_from_html(html_content)
    mdx_text,       \* extract_mdx_like_content_from_html(html_content)
    pc,             \* main and generate_llms_txt_from_docs: the next step
    steps,          \* the calls made so far, in order
    response,       \* what requests.get(url) met
    spec_html,      \* generate_llms_txt_from_docs: spec_html
    llms_content,   \* generate_llms_txt_from_docs: llms_content, a list of lines
    file,           \* the text of the file at output_path
    writes,         \* how many times the file was written
    returned,       \* how generate_llms_txt_from_docs ended
    main_outcome,   \* how main ended
    runs,           \* two runs of generate_llms_txt_from_docs: their arguments
    outputs         \* two runs of generate_llms_txt_from_docs: what each left

cleanVars == <<content, passes, once, twice>>
valVars == <<val_content, val_done, validation_results>>
infoVars == <<found, harvested, key_info>>
htmlVars == <<html_content, extracted, flat_text, mdx_text>>
genVars == <<pc, steps, response, spec_html, llms_content, file, writes, returned,
             main_outcome>>
pairVars == <<runs, outputs>>
vars == <<cleanVars, valVars, infoVars, htmlVars, genVars, pairVars>>

(***************************************************************************)
(* Each specification below runs one part of the script; the variables of  *)
(* the other parts keep these values.                                      *)
(***************************************************************************)
NoResults ==
    [h1_found |-> FALSE, blockquote_found |-> FALSE, h2_count |-> 0,
     links_found |-> FALSE, valid |-> FALSE]

CleanIdle == content = <<>> /\ passes = 0 /\ once = <<>> /\ twice = <<>>

ValIdle == val_content = <<>> /\ val_done = FALSE /\ validation_results = NoResults

\* lines 95-101
EmptyKeyInfo ==
    [core_concepts |-> <<>>, endpoints |-> <<>>, parameters |-> <<>>,
     response_fields |-> <<>>, streaming_events |-> <<>>]

\* a text that no pattern matches
NothingFound ==
    [concepts |-> <<>>, endpoints |-> <<>>, params |-> <<>>, fields |-> <<>>,
     events |-> <<>>]

InfoIdle == found = NothingFound /\ harvested = FALSE /\ key_info = EmptyKeyInfo

HtmlIdle == html_content = <<>> /\ extracted = {} /\ flat_text = <<>> /\ mdx_text = <<>>

NoResponse == [kind |-> "none", body |-> <<>>]

GenIdle ==
    /\ pc = "off" /\ steps = <<>> /\ response = NoResponse /\ spec_html = <<>>
    /\ llms_content = <<>> /\ file = <<>> /\ writes = 0 /\ returned = "none"
    /\ main_outcome = "none"

PairIdle == runs = <<>> /\ outputs = <<>>

(***************************************************************************)
(* Sequences                                                               *)
(***************************************************************************)
NL == "\n"

\* Python's str.isspace for the characters of the model
Whitespace == {" ", NL, "\t"}

RECURSIVE Concat(_)
Concat(ss) == IF ss = <<>> THEN <<>> ELSE Head(ss) \o Concat(Tail(ss))

\* the sequences over S of length at most n
SeqUpTo(S, n) == UNION {[1..k -> S] : k \in 0..n}

\* the least index k in from..Len(s) with s[k] = c, or 0
FirstAt(s, c, from) ==
    IF \E k \in from..Len(s) : s[k] = c
    THEN CHOOSE k \in from..Len(s) : s[k] = c /\ \A m \in from..(k-1) : s[m] # c
    ELSE 0

\* str.startswith
StartsWith(line, prefix) ==
    Len(line) >= Len(prefix) /\ SubSeq(line, 1, Len(prefix)) = prefix

\* c in line
Contains(line, c) == \E k \in 1..Len(line) : line[k] = c

\* '\n'.join(lines)
RECURSIVE Join(_)
Join(lines) ==
    IF lines = <<>> THEN <<>>
    ELSE IF Len(lines) = 1 THEN lines[1]
    ELSE lines[1] \o <<NL>> \o Join(Tail(lines))

\* content.split('\n'): one more line than there are newlines
RECURSIVE Split(_)
Split(c) ==
    LET k == FirstAt(c, NL, 1)
    IN IF k = 0 THEN <<c>>
       ELSE <<SubSeq(c, 1, k - 1)>> \o Split(SubSeq(c, k + 1, Len(c)))

(***************************************************************************)
(* clean_markdown_content (lines 75-90)                                    *)
(***************************************************************************)
\* the last index of the run of whitespace that starts at i
RECURSIVE RunEnd(_, _)
RunEnd(s, i) ==
    IF i < Len(s) /\ s[i+1] \in Whitespace THEN RunEnd(s, i+1) ELSE i

\* what the rule would match were its pattern r'\n\n\n'
MatchBlankLinesLazy(s, i) ==
    IF i + 2 <= Len(s) /\ s[i] = NL /\ s[i+1] = NL /\ s[i+2] = NL THEN i + 2 ELSE 0

\* r'\n\s*\n\s*\n' at i: the index of the match's last character, or 0.
\* Everything the pattern matches is whitespace, both \s* are greedy, so the
\* match runs from the newline at i to the last newline of the run.
MatchBlankLines(s, i) ==
    IF s[i] # NL THEN 0
    ELSE LET e == RunEnd(s, i)
             nls == {k \in i..e : s[k] = NL}
         IN IF Cardinality(nls) >= 3
            THEN CHOOSE k \in nls : \A m \in nls : m <= k
            ELSE 0

\* r'\[([^\]]+)\]\([^)]+\)' at i: <<index of "]", index of ")">>, or <<0, 0>>
MatchLink(s, i) ==
    IF s[i] # "[" THEN <<0, 0>>
    ELSE LET j == FirstAt(s, "]", i + 1)
         IN IF j < i + 2 \/ j + 1 > Len(s) \/ s[j+1] # "(" THEN <<0, 0>>
            ELSE LET k == FirstAt(s, ")", j + 2)
                 IN IF k < j + 3 THEN <<0, 0>> ELSE <<j, k>>

\* r'!\[([^\]]*)\]\([^)]+\)' at i: the index of ")", or 0
MatchImage(s, i) ==
    IF s[i] # "!" \/ i + 1 > Len(s) \/ s[i+1] # "[" THEN 0
    ELSE LET j == FirstAt(s, "]", i + 2)
         IN IF j = 0 \/ j + 1 > Len(s) \/ s[j+1] # "(" THEN 0
            ELSE LET k == FirstAt(s, ")", j + 2)
                 IN IF k < j + 3 THEN 0 ELSE k

\* r'<[^>]+>' at i: the index of ">", or 0
MatchTag(s, i) ==
    IF s[i] # "<" THEN 0
    ELSE LET k == FirstAt(s, ">", i + 1)
         IN IF k < i + 2 THEN 0 ELSE k

\* re.sub: leftmost matches, left to right, none overlapping
RECURSIVE SubBlankLines(_, _)
SubBlankLines(s, p) ==
    IF p > Len(s) THEN <<>>
    ELSE LET e == MatchBlankLines(s, p)
         IN IF e = 0 THEN <<s[p]>> \o SubBlankLines(s, p + 1)
            ELSE <<NL, NL>> \o SubBlankLines(s, e + 1)

RECURSIVE SubLinks(_, _)
SubLinks(s, p) ==
    IF p > Len(s) THEN <<>>
    ELSE LET m == MatchLink(s, p)
         IN IF m[2] = 0 THEN <<s[p]>> \o SubLinks(s, p + 1)
            ELSE SubSeq(s, p + 1, m[1] - 1) \o SubLinks(s, m[2] + 1)

RECURSIVE SubImages(_, _)
SubImages(s, p) ==
    IF p > Len(s) THEN <<>>
    ELSE LET e == MatchImage(s, p)
         IN IF e = 0 THEN <<s[p]>> \o SubImages(s, p + 1)
            ELSE SubImages(s, e + 1)

RECURSIVE SubTags(_, _)
SubTags(s, p) ==
    IF p > Len(s) THEN <<>>
    ELSE LET e == MatchTag(s, p)
         IN IF e = 0 THEN <<s[p]>> \o SubTags(s, p + 1)
            ELSE SubTags(s, e + 1)

\* str.strip()
Strip(s) ==
    LET keep == {k \in 1..Len(s) : s[k] \notin Whitespace}
    IN IF keep = {} THEN <<>>
       ELSE SubSeq(s, CHOOSE k \in keep : \A m \in keep : k <= m,
                      CHOOSE k \in keep : \A m \in keep : m <= k)

clean_markdown_content(s) ==
    Strip(SubTags(SubImages(SubLinks(SubBlankLines(s, 1), 1), 1), 1))

(***************************************************************************)
(* validate_llms_txt (lines 206-245)                                       *)
(***************************************************************************)
\* what valid would be were links_found one of its conjuncts
ValidNeedsLinks(h1_found, blockquote_found, h2_count, links_found) ==
    h1_found /\ blockquote_found /\ h2_count >= 1 /\ links_found

\* line 225
Valid(h1_found, blockquote_found, h2_count, links_found) ==
    h1_found /\ blockquote_found /\ h2_count >= 1

validate_llms_txt(file_content) ==
    LET lines == Split(file_content)
        h1_found == \E n \in 1..Len(lines) : StartsWith(lines[n], <<"#", " ">>)
        blockquote_found == \E n \in 1..Len(lines) : StartsWith(lines[n], <<">", " ">>)
        h2_count == Cardinality({n \in 1..Len(lines) : StartsWith(lines[n], <<"#", "#", " ">>)})
        links_found == \E n \in 1..Len(lines) :
                           /\ Contains(lines[n], "[") /\ Contains(lines[n], "]")
                           /\ Contains(lines[n], "(") /\ Contains(lines[n], ")")
    IN [h1_found |-> h1_found, blockquote_found |-> blockquote_found,
        h2_count |-> h2_count, links_found |-> links_found,
        valid |-> Valid(h1_found, blockquote_found, h2_count, links_found)]

(***************************************************************************)
(* Files given to the validator: at most MaxLines lines, each a line start *)
(* followed by a line body.                                                *)
(***************************************************************************)
MaxLines == 3

LineStarts == { <<"#", " ">>, <<"#">>, <<"#", "#", " ">>, <<"#", "#", "#", " ">>,
                <<">", " ">>, <<" ", "#", " ">> }

LineBodies == { <<>>, <<")", "(", "]", "[">>, <<"[", "x", "]">> }

LineSamples == {a \o b : a \in LineStarts, b \in LineBodies}

InitValidate ==
    /\ val_content \in {Join(ls) : ls \in SeqUpTo(LineSamples, MaxLines)}
    /\ val_done = FALSE
    /\ validation_results = NoResults
    /\ CleanIdle /\ InfoIdle /\ HtmlIdle /\ GenIdle /\ PairIdle

Validate ==
    /\ ~val_done
    /\ validation_results' = validate_llms_txt(val_content)
    /\ val_done' = TRUE
    /\ UNCHANGED <<val_content, cleanVars, infoVars, htmlVars, genVars, pairVars>>

NextValidate == Validate

SpecValidate == InitValidate /\ [][NextValidate]_vars

(***************************************************************************)
(* Claims about validate_llms_txt                                          *)
(***************************************************************************)
\* a line of c starts at i
LineStartsAt(c, i) == i = 1 \/ c[i-1] = NL

\* the places of c where a line starts with prefix
LinesWith(c, prefix) ==
    {i \in 1..Len(c) : /\ LineStartsAt(c, i)
                       /\ i + Len(prefix) - 1 <= Len(c)
                       /\ \A k \in 1..Len(prefix) : c[i + k - 1] = prefix[k]}

\* some line of c holds every character of cs
LineHoldsAll(c, cs) ==
    \E i \in 1..Len(c) :
        /\ LineStartsAt(c, i)
        /\ \A ch \in cs : \E k \in i..Len(c) :
               c[k] = ch /\ \A m \in i..k : c[m] # NL

\* C3: valid is (a line starts with "# ") and (a line starts with "> ") and
\* (at least one line starts with "## "); a file with no "> " line is invalid;
\* links_found is reported and has no part in valid.
C3_ValidIsThreePredicates ==
    val_done =>
        LET h1 == LinesWith(val_content, <<"#", " ">>) # {}
            bq == LinesWith(val_content, <<">", " ">>) # {}
            h2 == Cardinality(LinesWith(val_content, <<"#", "#", " ">>))
        IN /\ validation_results.valid = (h1 /\ bq /\ h2 >= 1)
           /\ validation_results.h2_count = h2
           /\ validation_results.links_found
                  = LineHoldsAll(val_content, {"[", "]", "(", ")"})
           /\ (~bq => ~validation_results.valid)

\* a file with an H1, an H2 and a link but no blockquote line: reported invalid
C3_Witness ==
    /\ val_done
    /\ LinesWith(val_content, <<"#", " ">>) # {}
    /\ LinesWith(val_content, <<"#", "#", " ">>) # {}
    /\ LinesWith(val_content, <<">", " ">>) = {}
    /\ validation_results.links_found
    /\ ~validation_results.valid

(***************************************************************************)
(* extract_key_info_from_content (lines 93-203)                            *)
(*                                                                         *)
(* The text is given by what re.findall returns for each pattern on it:    *)
(* for each category, one list of matches per pattern, in the order of the *)
(* patterns.  A match of a pattern with several groups is the tuple of its *)
(* groups; a match of a pattern with one group is that group.              *)
(***************************************************************************)
\* lines 197-201
CoreConceptsCap == 5
EndpointsCap == 10
ParametersCap == 20
ResponseFieldsCap == 20
StreamingEventsCap == 15

\* lines 104-116, 144-149, 169-173
NumConceptPatterns == 11
NumParamPatterns == 4
NumFieldPatterns == 3

UpperCase == <<"A","B","C","D","E","F","G","H","I","J","K","L","M","N","O","P","Q","R","S","T","U","V","W","X","Y","Z">>
LowerCase == <<"a","b","c","d","e","f","g","h","i","j","k","l","m","n","o","p","q","r","s","t","u","v","w","x","y","z">>

\* str.lower()
Lower(s) ==
    [k \in 1..Len(s) |->
        IF \E n \in 1..Len(UpperCase) : UpperCase[n] = s[k]
        THEN LowerCase[CHOOSE n \in 1..Len(UpperCase) : UpperCase[n] = s[k]]
        ELSE s[k]]

\* line 161
StopList ==
    { <<"t","h","e">>, <<"a","n","d">>, <<"f","o","r">>, <<"w","i","t","h">>,
      <<"t","o">>, <<"o","f">>, <<"i","n">>, <<"o","n">>, <<"a","t">>,
      <<"b","y">>, <<"i","s">>, <<"a","r","e">>, <<"w","a","s">>,
      <<"w","e","r","e">>, <<"b","e">>, <<"b","e","e","n">>,
      <<"b","e","i","n","g">>, <<"h","a","v","e">>, <<"h","a","s">>,
      <<"h","a","d">>, <<"d","o">>, <<"d","o","e","s">>, <<"d","i","d">>,
      <<"w","i","l","l">>, <<"w","o","u","l","d">>, <<"c","o","u","l","d">>,
      <<"s","h","o","u","l","d">>, <<"t","y","p","e">>, <<"i","d">>,
      <<"n","a","m","e">>, <<"t","e","x","t">>, <<"u","r","l">>,
      <<"d","a","t","a">>, <<"m","o","d","e","l">>, <<"i","n","p","u","t">>,
      <<"t","o","o","l","s">>, <<"t","o","o","l">>,
      <<"s","t","r","e","a","m">>,
      <<"t","e","m","p","e","r","a","t","u","r","e">>,
      <<"t","o","p","_","p">> }

Range(list) == {list[k] : k \in 1..Len(list)}

\* re.sub(r'\s+', ' ', s): each run of whitespace becomes one space
RECURSIVE CollapseSpace(_, _)
CollapseSpace(s, p) ==
    IF p > Len(s) THEN <<>>
    ELSE IF s[p] \in Whitespace THEN <<" ">> \o CollapseSpace(s, RunEnd(s, p) + 1)
    ELSE <<s[p]>> \o CollapseSpace(s, p + 1)

\* list[:cap]
Limit(list, cap) == SubSeq(list, 1, IF Len(list) < cap THEN Len(list) ELSE cap)

\* list.append(x) with no membership test
AppendAlways(list, x) == Append(list, x)

\* if x not in list: list.append(x)
AppendUnique(list, x) == IF x \in Range(list) THEN list ELSE Append(list, x)

\* lines 121-128: one match of a concept pattern
AddConcept(list, match) ==
    IF Strip(match) # <<>>
    THEN LET clean_match == CollapseSpace(Strip(match), 1)
         IN IF Len(clean_match) > 10 THEN AppendUnique(list, clean_match) ELSE list
    ELSE list

\* lines 136-139: one match, the pair (method, path)
AddEndpoint(list, pair) == AppendUnique(list, pair[1] \o <<" ">> \o pair[2])

\* line 157: next((m for m in match_group if m), '')
FirstNonEmpty(groups) ==
    IF \E k \in 1..Len(groups) : groups[k] # <<>>
    THEN groups[CHOOSE k \in 1..Len(groups) :
                    groups[k] # <<>> /\ \A m \in 1..(k-1) : groups[m] = <<>>]
    ELSE <<>>

\* lines 154-163: one match; the matches of the last pattern are tuples
AddParameter(list, match_group, is_tuple) ==
    LET match == IF is_tuple THEN FirstNonEmpty(match_group) ELSE match_group
    IN IF match # <<>> /\ Len(match) > 2 /\ Lower(match) \notin StopList
       THEN AppendUnique(list, match)
       ELSE list

\* lines 178-181
AddField(list, match) ==
    IF match # <<>> /\ Len(match) > 2 THEN AppendUnique(list, match) ELSE list

\* lines 190-192
AddEvent(list, event) == AppendUnique(list, event)

\* the loops: for pattern in patterns: for match in re.findall(pattern, ...)
RECURSIVE ConceptLoop(_, _, _, _)
ConceptLoop(list, matches, p, m) ==
    IF p > Len(matches) THEN list
    ELSE IF m > Len(matches[p]) THEN ConceptLoop(list, matches, p + 1, 1)
    ELSE ConceptLoop(AddConcept(list, matches[p][m]), matches, p, m + 1)

RECURSIVE EndpointLoop(_, _, _)
EndpointLoop(list, matches, m) ==
    IF m > Len(matches) THEN list
    ELSE EndpointLoop(AddEndpoint(list, matches[m]), matches, m + 1)

RECURSIVE ParameterLoop(_, _, _, _)
ParameterLoop(list, matches, p, m) ==
    IF p > Len(matches) THEN list
    ELSE IF m > Len(matches[p]) THEN ParameterLoop(list, matches, p + 1, 1)
    ELSE ParameterLoop(AddParameter(list, matches[p][m], p = NumParamPatterns),
                       matches, p, m + 1)

RECURSIVE FieldLoop(_, _, _, _)
FieldLoop(list, matches, p, m) ==
    IF p > Len(matches) THEN list
    ELSE IF m > Len(matches[p]) THEN FieldLoop(list, matches, p + 1, 1)
    ELSE FieldLoop(AddField(list, matches[p][m]), matches, p, m + 1)

RECURSIVE EventLoop(_, _, _)
EventLoop(list, matches, m) ==
    IF m > Len(matches) THEN list
    ELSE EventLoop(AddEvent(list, matches[m]), matches, m + 1)

extract_key_info_from_content(text) ==
    [core_concepts |-> Limit(ConceptLoop(<<>>, text.concepts, 1, 1), CoreConceptsCap),
     endpoints |-> Limit(EndpointLoop(<<>>, text.endpoints, 1), EndpointsCap),
     parameters |-> Limit(ParameterLoop(<<>>, text.params, 1, 1), ParametersCap),
     response_fields |-> Limit(FieldLoop(<<>>, text.fields, 1, 1), ResponseFieldsCap),
     streaming_events |-> Limit(EventLoop(<<>>, text.events, 1), StreamingEventsCap)]

(***************************************************************************)
(* Texts given to the extractor.  A text has n candidates of each category *)
(* that are distinct and kept, n <= MaxDistinct, in the order 1..n; a      *)
(* repetition of candidate dupOf (the first or the last so far) may follow *)
(* candidate dupAt, and one candidate that the filters reject may come     *)
(* first or follow candidate dupAt.  The                                   *)
(* candidates up to splitAt are matches of the first pattern of their      *)
(* category, the rest are matches of its last pattern.                     *)
(***************************************************************************)
MaxDistinct == 22

Tok2(i) == <<LowerCase[((i - 1) \div 26) + 1], LowerCase[((i - 1) % 26) + 1]>>

\* "**Items** xy", and the same with a line break in it
ConceptTok(i) == <<"*", "*", "I", "t", "e", "m", "s", "*", "*", " ">> \o Tok2(i)
ConceptTokAgain(i) ==
    <<" ", "*", "*", "I", "t", "e", "m", "s", "*", "*", NL, " ">> \o Tok2(i) \o <<NL>>
\* "**Items**": not more than 10 characters
ConceptTokShort(i) == <<"*", "*", "I", "t", "e", "m", "s", "*", "*">>

EndpointTok(i) == << <<"POST">>, <<"/">> \o Tok2(i) >>
ParamTok(i) == <<"p">> \o Tok2(i)
\* "The": in the stop list once lowered
ParamTokStop(i) == <<"T", "h", "e">>
FieldTok(i) == <<"f">> \o Tok2(i)
FieldTokShort(i) == <<"i", "d">>
EventTok(i) == <<"response.">> \o Tok2(i)

InsertAt(seq, pos, x) == SubSeq(seq, 1, pos) \o <<x>> \o SubSeq(seq, pos + 1, Len(seq))

Shapes ==
    {sh \in [n : 0..MaxDistinct, dupAt : 0..MaxDistinct, dupOf : 0..MaxDistinct,
             badAt : (-1)..MaxDistinct, splitAt : {0, 3}] :
        /\ sh.dupAt <= sh.n /\ sh.dupOf \in {IF sh.dupAt = 0 THEN 0 ELSE 1, sh.dupAt}
        /\ sh.badAt \in {-1, 0, sh.dupAt}}

\* the candidates of one category in the order of discovery
Candidates(sh, Tok(_), Again(_), Bad(_), filtered) ==
    LET base == [i \in 1..sh.n |-> Tok(i)]
        dup == IF sh.dupAt = 0 THEN base ELSE InsertAt(base, sh.dupAt, Again(sh.dupOf))
    IN IF filtered /\ sh.badAt >= 0 THEN InsertAt(dup, sh.badAt, Bad(sh.n)) ELSE dup

\* a list of matches as the matches of the first and of the last of np patterns
OverPatterns(cands, splitAt, np) ==
    LET cut == IF splitAt < Len(cands) THEN splitAt ELSE Len(cands)
    IN [p \in 1..np |-> IF p = 1 THEN SubSeq(cands, 1, cut)
                        ELSE IF p = np THEN SubSeq(cands, cut + 1, Len(cands))
                        ELSE <<>>]

\* the match of the four-group pattern whose group g matched
AsGroups(match, g) == [k \in 1..4 |-> IF k = g THEN match ELSE <<>>]

FoundOf(sh) ==
    LET params == OverPatterns(Candidates(sh, ParamTok, ParamTok, ParamTokStop, TRUE),
                               sh.splitAt, NumParamPatterns)
    IN [concepts |-> OverPatterns(
                        Candidates(sh, ConceptTok, ConceptTokAgain, ConceptTokShort, TRUE),
                        sh.splitAt, NumConceptPatterns),
        endpoints |-> Candidates(sh, EndpointTok, EndpointTok, EndpointTok, FALSE),
        params |-> [p \in 1..NumParamPatterns |->
                       IF p < NumParamPatterns THEN params[p]
                       ELSE [k \in 1..Len(params[p]) |->
                                AsGroups(params[p][k], (k % 4) + 1)]],
        fields |-> OverPatterns(Candidates(sh, FieldTok, FieldTok, FieldTokShort, TRUE),
                                sh.splitAt, NumFieldPatterns),
        events |-> Candidates(sh, EventTok, EventTok, EventTok, FALSE)]

NoMatches(np) == [p \in 1..np |-> <<>>]

\* a text with no match of any pattern
FoundNothing ==
    [concepts |-> NoMatches(NumConceptPatterns), endpoints |-> <<>>,
     params |-> NoMatches(NumParamPatterns), fields |-> NoMatches(NumFieldPatterns),
     events |-> <<>>]

\* 30 distinct backtick-quoted response.* tokens
ThirtyEvents == [FoundNothing EXCEPT !.events = [i \in 1..30 |-> EventTok(i)]]

\* `foo` (string) ... `bar` (string) ... `foo` (string)
FooBarFoo ==
    [FoundNothing EXCEPT !.params[1] =
        << <<"f", "o", "o">>, <<"b", "a", "r">>, <<"f", "o", "o">> >>]

InitKeyInfo ==
    /\ found \in {FoundOf(sh) : sh \in Shapes} \cup {ThirtyEvents, FooBarFoo}
    /\ harvested = FALSE
    /\ key_info = EmptyKeyInfo
    /\ CleanIdle /\ ValIdle /\ HtmlIdle /\ GenIdle /\ PairIdle

ExtractKeyInfo ==
    /\ ~harvested
    /\ key_info' = extract_key_info_from_content(found)
    /\ harvested' = TRUE
    /\ UNCHANGED <<found, cleanVars, valVars, htmlVars, genVars, pairVars>>

NextKeyInfo == ExtractKeyInfo

SpecKeyInfo == InitKeyInfo /\ [][NextKeyInfo]_vars

(***************************************************************************)
(* Claims about extract_key_info_from_content                              *)
(***************************************************************************)
\* the matches of all patterns of a category, in the order of discovery
InOrder(per_pattern) == Concat(per_pattern)

\* what each match is a candidate for
ConceptOf(match) == CollapseSpace(Strip(match), 1)
EndpointOf(pair) == pair[1] \o <<" ">> \o pair[2]

ConceptCandidates ==
    LET all == InOrder(found.concepts)
    IN SelectSeq([k \in 1..Len(all) |-> ConceptOf(all[k])], LAMBDA c : Len(c) > 10)

EndpointCandidates == [k \in 1..Len(found.endpoints) |-> EndpointOf(found.endpoints[k])]

ParameterCandidates ==
    LET plain == InOrder(SubSeq(found.params, 1, NumParamPatterns - 1))
        groups == found.params[NumParamPatterns]
        all == plain \o [k \in 1..Len(groups) |-> FirstNonEmpty(groups[k])]
    IN SelectSeq(all, LAMBDA c : Len(c) > 2 /\ Lower(c) \notin StopList)

FieldCandidates == SelectSeq(InOrder(found.fields), LAMBDA c : Len(c) > 2)

EventCandidates == found.events

\* the candidates that no earlier candidate equals, in their order
FirstSeen(c) ==
    LET first == {k \in 1..Len(c) : \A j \in 1..(k-1) : c[j] # c[k]}
        rank(k) == Cardinality({j \in first : j <= k})
    IN [r \in 1..Cardinality(first) |-> c[CHOOSE k \in first : rank(k) = r]]

\* the first cap of them
FirstSeenUpTo(c, cap) ==
    LET f == FirstSeen(c)
    IN [r \in 1..(IF Len(f) < cap THEN Len(f) ELSE cap) |-> f[r]]

Distinct(list) == \A a, b \in 1..Len(list) : a # b => list[a] # list[b]

\* C4: each list is the kept candidates in the order of discovery, later
\* duplicates removed, cut to its cap (5, 10, 20, 20, 15): its elements are
\* distinct, it is no longer than its cap, 30 distinct events give the first 15,
\* and the parameters foo, bar, foo give [foo, bar].
C4_ListsAreFirstSeenUpToCap ==
    harvested =>
        /\ key_info.core_concepts = FirstSeenUpTo(ConceptCandidates, 5)
        /\ key_info.endpoints = FirstSeenUpTo(EndpointCandidates, 10)
        /\ key_info.parameters = FirstSeenUpTo(ParameterCandidates, 20)
        /\ key_info.response_fields = FirstSeenUpTo(FieldCandidates, 20)
        /\ key_info.streaming_events = FirstSeenUpTo(EventCandidates, 15)
        /\ \A f \in DOMAIN key_info : Distinct(key_info[f])
        /\ Len(key_info.core_concepts) <= 5 /\ Len(key_info.endpoints) <= 10
        /\ Len(key_info.parameters) <= 20 /\ Len(key_info.response_fields) <= 20
        /\ Len(key_info.streaming_events) <= 15
        /\ (found = ThirtyEvents =>
                key_info.streaming_events = [i \in 1..15 |-> EventTok(i)])
        /\ (found = FooBarFoo =>
                key_info.parameters = << <<"f", "o", "o">>, <<"b", "a", "r">> >>)

\* a text with more distinct candidates than every cap, one of them repeated
\* among the first five, and a rejected candidate among them
C4_Witness ==
    /\ harvested
    /\ Len(FirstSeen(EventCandidates)) > 20
    /\ Len(EventCandidates) > Len(FirstSeen(EventCandidates))
    /\ \E a, b \in 1..5 : a < b /\ found.events[a] = found.events[b]
    /\ Len(InOrder(found.fields)) > Len(FieldCandidates)
    /\ Len(key_info.core_concepts) = 5 /\ Len(key_info.endpoints) = 10
    /\ Len(key_info.parameters) = 20 /\ Len(key_info.response_fields) = 20
    /\ Len(key_info.streaming_events) = 15

(***************************************************************************)
(* extract_content_from_html, extract_mdx_like_content_from_html           *)
(* (lines 28-72)                                                           *)
(*                                                                         *)
(* A page is the tree BeautifulSoup(html_content, 'html.parser') builds:   *)
(* the sequence of its nodes in document order, node 0 being the soup      *)
(* itself.  A node has its parent, its tag ("#text" for a string), its     *)
(* class attribute (a sequence of words, empty when it has none) and, for  *)
(* a string, its characters.                                               *)
(***************************************************************************)
TextTag == "#text"

\* node i lies under node a (a = 0: the soup)
RECURSIVE IsUnder(_, _, _)
IsUnder(doc, i, a) ==
    IF a = 0 THEN TRUE
    ELSE IF doc[i].parent = 0 THEN FALSE
    ELSE doc[i].parent = a \/ IsUnder(doc, doc[i].parent, a)

\* the indices of a set of nodes in document order
RECURSIVE InDocumentOrder(_)
InDocumentOrder(S) ==
    IF S = {} THEN <<>>
    ELSE LET least == CHOOSE i \in S : \A j \in S : i <= j
         IN <<least>> \o InDocumentOrder(S \ {least})

\* soup(["script"]): style elements left in
FindAllScriptOnly(doc, alive, tags) ==
    InDocumentOrder({i \in alive : doc[i].tag \in tags \ {"style"}})

\* soup.find_all(tags): every element of the tree with one of the tags
FindAll(doc, alive, tags) == InDocumentOrder({i \in alive : doc[i].tag \in tags})

\* element.decompose(): the element and everything under it leave the tree
Decompose(doc, alive, e) == {i \in alive : i # e /\ ~IsUnder(doc, i, e)}

\* for script in soup(["script", "style"]): script.decompose()
RECURSIVE DecomposeEach(_, _, _)
DecomposeEach(doc, alive, elements) ==
    IF elements = <<>> THEN alive
    ELSE DecomposeEach(doc, Decompose(doc, alive, Head(elements)), Tail(elements))

RemoveScripts(doc) ==
    LET all == 1..Len(doc)
    IN DecomposeEach(doc, all, FindAll(doc, all, {"script", "style"}))

\* the strings of the tree under node a, in document order
Strings(doc, alive, a) ==
    LET idx == InDocumentOrder({i \in alive : doc[i].tag = TextTag /\ IsUnder(doc, i, a)})
    IN [k \in 1..Len(idx) |-> doc[idx[k]].data]

\* sep.join(strings)
RECURSIVE JoinWith(_, _)
JoinWith(strings, sep) ==
    IF strings = <<>> THEN <<>>
    ELSE IF Len(strings) = 1 THEN strings[1]
    ELSE strings[1] \o sep \o JoinWith(Tail(strings), sep)

\* element.get_text(separator)
GetText(doc, alive, a, sep) == JoinWith(Strings(doc, alive, a), sep)

\* str.splitlines(): as split('\n'), without the empty piece a final newline leaves
SplitLines(c) ==
    IF c = <<>> THEN <<>>
    ELSE IF c[Len(c)] = NL THEN Split(SubSeq(c, 1, Len(c) - 1))
    ELSE Split(c)

\* line.split("  ")
RECURSIVE SplitDoubleSpace(_)
SplitDoubleSpace(line) ==
    IF \E k \in 1..(Len(line) - 1) : line[k] = " " /\ line[k+1] = " "
    THEN LET k == CHOOSE k \in 1..(Len(line) - 1) :
                      /\ line[k] = " " /\ line[k+1] = " "
                      /\ \A m \in 1..(k-1) : ~(line[m] = " " /\ line[m+1] = " ")
         IN <<SubSeq(line, 1, k - 1)>> \o SplitDoubleSpace(SubSeq(line, k + 2, Len(line)))
    ELSE <<line>>

\* (phrase.strip() for line in lines for phrase in line.split("  ")), the
\* empty chunks left out
RECURSIVE Chunks(_)
Chunks(lines) ==
    IF lines = <<>> THEN <<>>
    ELSE LET phrases == SplitDoubleSpace(Strip(Head(lines)))
             stripped == [k \in 1..Len(phrases) |-> Strip(phrases[k])]
         IN SelectSeq(stripped, LAMBDA chunk : chunk # <<>>) \o Chunks(Tail(lines))

extract_content_from_html(doc) ==
    LET alive == RemoveScripts(doc)
        text == GetText(doc, alive, 0, <<>>)
    IN JoinWith(Chunks(SplitLines(text)), <<" ">>)

\* line 57: the class attribute holds one of the hints
Hints == {"content", "main", "doc", "page"}
ClassMatches(cls) == cls # <<>> /\ \E h \in Hints : Contains(cls, h)

\* lines 56-61
ContentAreas(doc, alive) ==
    LET areas == InDocumentOrder({i \in alive :
                     /\ doc[i].tag \in {"main", "article", "div"}
                     /\ ClassMatches(doc[i].cls)})
        bodies == FindAll(doc, alive, {"body"})
    IN IF areas # <<>> THEN areas
       ELSE IF bodies # <<>> THEN <<bodies[1]>>
       ELSE <<0>>

\* lines 63-65
RECURSIVE AreaTexts(_, _, _)
AreaTexts(doc, alive, areas) ==
    IF areas = <<>> THEN <<>>
    ELSE GetText(doc, alive, Head(areas), <<NL>>) \o <<NL>>
         \o AreaTexts(doc, alive, Tail(areas))

extract_mdx_like_content_from_html(doc) ==
    LET alive == RemoveScripts(doc)
        extracted_content == AreaTexts(doc, alive, ContentAreas(doc, alive))
    IN JoinWith(Chunks(SplitLines(extracted_content)), <<NL>>)

(***************************************************************************)
(* Pages given to the extractors: trees of at most MaxNodes nodes, built   *)
(* node by node in document order.  The parser gives a script or style     *)
(* element nothing but its text, and the body element lies at the top.     *)
(***************************************************************************)
MaxNodes == 4

Elements ==
    { [tag |-> "div", cls |-> <<>>], [tag |-> "div", cls |-> <<"page", "-", "body">>],
      [tag |-> "script", cls |-> <<>>], [tag |-> "style", cls |-> <<"content">>] }

VisibleTexts == { <<"t">>, <<" ", "u", " ", " ", "v", NL>> }

\* the elements the next node of the page may have as parent: the soup, and
\* the last node and what it lies under
OpenElements(doc) ==
    {0} \cup {a \in 1..Len(doc) :
                 /\ doc[a].tag # TextTag
                 /\ (a = Len(doc) \/ IsUnder(doc, Len(doc), a))
                 /\ (doc[a].tag \in {"script", "style"} => a = Len(doc))}

NodesUnder(doc, a) ==
    IF a # 0 /\ doc[a].tag = "script"
    THEN { [parent |-> a, tag |-> TextTag, cls |-> <<>>, data |-> <<"js">>] }
    ELSE IF a # 0 /\ doc[a].tag = "style"
    THEN { [parent |-> a, tag |-> TextTag, cls |-> <<>>, data |-> <<"css">>] }
    ELSE { [parent |-> a, tag |-> e.tag, cls |-> e.cls, data |-> <<>>] : e \in Elements }
         \cup { [parent |-> a, tag |-> TextTag, cls |-> <<>>, data |-> t] : t \in VisibleTexts }
         \cup (IF a = 0 /\ doc = <<>>
               THEN { [parent |-> 0, tag |-> "body", cls |-> <<>>, data |-> <<>>] }
               ELSE {})

InitHtml ==
    /\ html_content = <<>>
    /\ extracted = {}
    /\ flat_text = <<>>
    /\ mdx_text = <<>>
    /\ CleanIdle /\ ValIdle /\ InfoIdle /\ GenIdle /\ PairIdle

\* BeautifulSoup(html_content, 'html.parser') meets the next tag or string
ParseNode ==
    /\ extracted = {}
    /\ Len(html_content) < MaxNodes
    /\ \E a \in OpenElements(html_content) : \E node \in NodesUnder(html_content, a) :
           html_content' = Append(html_content, node)
    /\ UNCHANGED <<extracted, flat_text, mdx_text, cleanVars, valVars, infoVars, genVars, pairVars>>

ExtractContent ==
    /\ "flat" \notin extracted
    /\ flat_text' = extract_content_from_html(html_content)
    /\ extracted' = extracted \cup {"flat"}
    /\ UNCHANGED <<html_content, mdx_text, cleanVars, valVars, infoVars, genVars, pairVars>>

ExtractMdx ==
    /\ "mdx" \notin extracted
    /\ mdx_text' = extract_mdx_like_content_from_html(html_content)
    /\ extracted' = extracted \cup {"mdx"}
    /\ UNCHANGED <<html_content, flat_text, cleanVars, valVars, infoVars, genVars, pairVars>>

NextHtml == ParseNode \/ ExtractContent \/ ExtractMdx

SpecHtml == InitHtml /\ [][NextHtml]_vars

(***************************************************************************)
(* Claims about the text extractors                                        *)
(***************************************************************************)
\* the strings of the page that lie under a script or style element
ScriptStrings ==
    {i \in 1..Len(html_content) :
        /\ html_content[i].tag = TextTag
        /\ \E a \in 1..Len(html_content) :
               /\ html_content[a].tag \in {"script", "style"}
               /\ IsUnder(html_content, i, a)}

HoldsAnyOf(text, strings) ==
    \E i \in strings : \E k \in 1..Len(text) :
        Contains(html_content[i].data, text[k])

\* the strings of the page that lie under no script or style element
VisibleStrings ==
    {i \in 1..Len(html_content) : html_content[i].tag = TextTag} \ ScriptStrings

\* C8: the text either extractor returns holds nothing of a string that lies
\* under a script or style element, at any depth, whether or not an element
\* matched as a content area.
C8_NoScriptOrStyleText ==
    /\ ("flat" \in extracted => ~HoldsAnyOf(flat_text, ScriptStrings))
    /\ ("mdx" \in extracted => ~HoldsAnyOf(mdx_text, ScriptStrings))

\* a page with a style element two levels deep in a content area, text beside
\* it, and both extractors returning that text alone
C8_Witness ==
    /\ extracted = {"flat", "mdx"}
    /\ \E i \in ScriptStrings : \E a, b \in 1..Len(html_content) :
           /\ html_content[i].parent = b /\ html_content[b].tag = "style"
           /\ html_content[b].parent = a /\ html_content[a].tag = "div"
           /\ ClassMatches(html_content[a].cls)
    /\ VisibleStrings # {}
    /\ flat_text # <<>> /\ mdx_text # <<>>


(***************************************************************************)
(* Inputs of the cleaner: concatenations of at most MaxPieces pieces, and  *)
(* the sample sentence of the documentation.                               *)
(***************************************************************************)
MaxPieces == 4

Pieces == { <<"[">>, <<"]">>, <<"[", "a", "]">>, <<"(", "b", ")">>,
            <<"<", "b", ">">>, <<"!">>, <<NL>>, <<NL, NL>>, <<" ">>, <<"a">>, <<"<">> }

\* "See [Docs](http://x) and ![img](http://y) here"
SampleText ==
    <<"S","e","e"," ","[","D","o","c","s","]","(","h","t","t","p",":","/","/","x",")",
      " ","a","n","d"," ","!","[","i","m","g","]","(","h","t","t","p",":","/","/","y",")",
      " ","h","e","r","e">>

\* "See Docs and  here"
SampleCleaned ==
    <<"S","e","e"," ","D","o","c","s"," ","a","n","d"," "," ","h","e","r","e">>

CleanInputs == {Concat(ps) : ps \in SeqUpTo(Pieces, MaxPieces)} \cup {SampleText}

InitClean ==
    /\ content \in CleanInputs
    /\ passes = 0
    /\ once = <<>>
    /\ twice = <<>>
    /\ ValIdle /\ InfoIdle /\ HtmlIdle /\ GenIdle /\ PairIdle

CleanOnce ==
    /\ passes = 0
    /\ once' = clean_markdown_content(content)
    /\ passes' = 1
    /\ UNCHANGED <<content, twice, valVars, infoVars, htmlVars, genVars, pairVars>>

CleanAgain ==
    /\ passes = 1
    /\ twice' = clean_markdown_content(once)
    /\ passes' = 2
    /\ UNCHANGED <<content, once, valVars, infoVars, htmlVars, genVars, pairVars>>

NextClean == CleanOnce \/ CleanAgain

SpecClean == InitClean /\ [][NextClean]_vars

(***************************************************************************)
(* Claims about clean_markdown_content                                     *)
(***************************************************************************)
\* the cleaner with the image rule applied before the link rule
CleanImagesFirst(s) ==
    Strip(SubTags(SubLinks(SubImages(SubBlankLines(s, 1), 1), 1), 1))

\* C5: every markdown image is removed entirely, whatever the order of the
\* image rule and the link rule, and the sample sentence cleans to
\* "See Docs and  here".
C5_ImagesRemovedEntirely ==
    passes >= 1 =>
        /\ once = CleanImagesFirst(content)
        /\ (content = SampleText => once = SampleCleaned)

\* text with a markdown link [text](url), image ![alt](url) or HTML tag <...>
HasLinkSyntax(s) ==
    \E j \in 1..Len(s) :
        /\ s[j] = "]" /\ j + 1 <= Len(s) /\ s[j+1] = "("
        /\ \E i \in 1..(j-2) : s[i] = "[" /\ \A m \in (i+1)..(j-1) : s[m] # "]"
        /\ \E k \in (j+3)..Len(s) : s[k] = ")" /\ \A m \in (j+2)..(k-1) : s[m] # ")"

HasImageSyntax(s) ==
    \E j \in 1..Len(s) :
        /\ s[j] = "]" /\ j + 1 <= Len(s) /\ s[j+1] = "("
        /\ \E i \in 2..(j-1) : /\ s[i] = "[" /\ s[i-1] = "!"
                               /\ \A m \in (i+1)..(j-1) : s[m] # "]"
        /\ \E k \in (j+3)..Len(s) : s[k] = ")" /\ \A m \in (j+2)..(k-1) : s[m] # ")"

HasTagSyntax(s) ==
    \E i \in 1..Len(s) : \E k \in (i+2)..Len(s) :
        s[i] = "<" /\ s[k] = ">" /\ \A m \in (i+1)..(k-1) : s[m] # ">"

AlreadyClean(s) == ~HasLinkSyntax(s) /\ ~HasImageSyntax(s) /\ ~HasTagSyntax(s)

\* C6 as stated: cleaning twice equals cleaning once, for every input.
C6_IdempotentOnEveryInput == passes = 2 => twice = once

\* C6, amended: cleaning twice equals cleaning once for every input that holds
\* no markdown link, no markdown image and no HTML tag.
C6_IdempotentOnCleanText ==
    (passes = 2 /\ AlreadyClean(content)) => twice = once

\* a text without markup in which the blank-line rule and the trim both acted
C6_Witness ==
    /\ passes = 2
    /\ AlreadyClean(content)
    /\ "[" \in {content[k] : k \in 1..Len(content)}
    /\ Len(once) + 2 <= Len(content)
    /\ once # Strip(content)
    /\ twice = once

(***************************************************************************)
(* fetch_web_content (lines 17-25)                                         *)
(*                                                                         *)
(* requests.get either raises a RequestException (no connection, timeout), *)
(* or returns a response whose status raise_for_status() accepts or turns  *)
(* into an HTTPError, a RequestException too.  The body of a response is   *)
(* the page it holds, as the tree html.parser builds of it; the empty      *)
(* string is the empty tree.                                               *)
(***************************************************************************)
\* the function without line 21: the body of an error response is returned
FetchUnchecked(resp) ==
    IF resp.kind = "ConnectionError"
    THEN [text |-> <<>>, raised |-> FALSE]
    ELSE [text |-> resp.body, raised |-> FALSE]

fetch_web_content(resp) ==
    IF resp.kind \in {"ConnectionError", "HTTPError"}
    THEN [text |-> <<>>, raised |-> FALSE]       \* lines 23-25
    ELSE [text |-> resp.body, raised |-> FALSE]  \* line 22

(***************************************************************************)
(* generate_llms_txt_from_docs (lines 248-355): the lines of the document  *)
(***************************************************************************)
Heading2(title) == <<"#", "#", " ", title>>
\* a sub-heading written at level two
Heading3AsHeading2(title) == <<"#", "#", " ", title>>
Heading3(title) == <<"#", "#", "#", " ", title>>

LinkLine(text, url, about) ==
    <<"-", " ", "[", text, "]", "(", url, ")", ":", " ", about>>

\* lines 265-268
TitleLines ==
    << <<"#", " ", "Open Responses">>,
       <<>>,
       <<">", " ", "Open Responses is an open, vendor-neutral specification for large language model APIs that defines a shared schema, consistent streaming/events, and extensible tooling to enable interoperable LLM workflows across different providers. It standardizes LLM interfaces while maintaining flexibility for provider-specific extensions and advanced agentic capabilities.">>,
       <<>> >>

Bullets(list) == [k \in 1..Len(list) |-> <<"-", " ">> \o list[k]]
\* the grave accent U+0060, a character no string of this language can hold
Backtick == "GRAVE"

QuotedBullets(list) ==
    [k \in 1..Len(list) |-> <<"-", " ", Backtick>> \o list[k] \o <<Backtick>>]

\* line 287 with "and" for "or"
HasApiBoth(info) == info.endpoints # <<>> /\ info.parameters # <<>>

\* line 287
HasApi(info) == info.endpoints # <<>> \/ info.parameters # <<>>

\* lines 279-308 with a section for response_fields as well
SectionsWithFields(info) ==
    (IF info.core_concepts # <<>>
     THEN <<Heading2("Core Concepts"), <<>> >> \o Bullets(info.core_concepts) \o << <<>> >>
     ELSE <<>>)
    \o (IF HasApi(info)
        THEN <<Heading2("API"), <<>> >>
             \o (IF info.endpoints # <<>>
                 THEN <<Heading3("Endpoints")>> \o QuotedBullets(info.endpoints) \o << <<>> >>
                 ELSE <<>>)
             \o (IF info.parameters # <<>>
                 THEN <<Heading3("Key Parameters")>> \o QuotedBullets(info.parameters)
                      \o << <<>> >>
                 ELSE <<>>)
        ELSE <<>>)
    \o (IF info.response_fields # <<>>
        THEN <<Heading2("Response Fields"), <<>> >>
             \o QuotedBullets(info.response_fields) \o << <<>> >>
        ELSE <<>>)
    \o (IF info.streaming_events # <<>>
        THEN <<Heading2("Streaming Events"), <<>> >>
             \o QuotedBullets(info.streaming_events) \o << <<>> >>
        ELSE <<>>)

\* lines 279-308
SectionsFor(info) ==
    (IF info.core_concepts # <<>>
     THEN <<Heading2("Core Concepts"), <<>> >> \o Bullets(info.core_concepts) \o << <<>> >>
     ELSE <<>>)
    \o (IF HasApi(info)
        THEN <<Heading2("API"), <<>> >>
             \o (IF info.endpoints # <<>>
                 THEN <<Heading3("Endpoints")>> \o QuotedBullets(info.endpoints) \o << <<>> >>
                 ELSE <<>>)
             \o (IF info.parameters # <<>>
                 THEN <<Heading3("Key Parameters")>> \o QuotedBullets(info.parameters)
                      \o << <<>> >>
                 ELSE <<>>)
        ELSE <<>>)
    \o (IF info.streaming_events # <<>>
        THEN <<Heading2("Streaming Events"), <<>> >>
             \o QuotedBullets(info.streaming_events) \o << <<>> >>
        ELSE <<>>)

Site == "https://www.openresponses.org/"

\* lines 311-336
StaticLines ==
    << Heading2("Resources"), <<>>,
       LinkLine("API Reference", Site \o "reference", "Detailed API documentation with all endpoints, parameters, and response structures"),
       LinkLine("Specification", Site \o "specification", "Complete technical specification with detailed concepts and implementation guidelines"),
       LinkLine("Compliance", Site \o "compliance", "Acceptance tests and validation procedures"),
       LinkLine("Governance", Site \o "governance", "Technical charter and governance structure"),
       LinkLine("Changelog", Site \o "changelog", "Version history and updates"),
       <<>>,
       Heading2("Documentation"), <<>>,
       LinkLine("Overview", Site, "Introduction to Open Responses"),
       LinkLine("Specification", Site \o "specification", "Complete technical specification"),
       LinkLine("API Reference", Site \o "reference", "Detailed API documentation"),
       LinkLine("Compliance", Site \o "compliance", "Acceptance tests and validation"),
       LinkLine("Governance", Site \o "governance", "Technical charter and governance structure"),
       LinkLine("Changelog", Site \o "changelog", "Version history and updates"),
       <<>>,
       Heading2("Examples"), <<>>,
       LinkLine("cURL Snippets", Site \o "curl_snippets/curl_snippets.yaml", "YAML file with cURL examples for various API calls"),
       LinkLine("OpenAPI Specification", Site \o "openapi/openapi.json", "Complete OpenAPI specification in JSON format"),
       <<>> >>

(***************************************************************************)
(* What requests.get may meet, and what the patterns may find in a page.   *)
(* A page with text has up to MaxFound candidates of each category.        *)
(***************************************************************************)
MaxFound == 2

\* <body><script>js</script></body>
ScriptOnlyPage ==
    << [parent |-> 0, tag |-> "body", cls |-> <<>>, data |-> <<>>],
       [parent |-> 1, tag |-> "script", cls |-> <<>>, data |-> <<>>],
       [parent |-> 2, tag |-> TextTag, cls |-> <<>>, data |-> <<"js">>] >>

\* <div class="page-body">t<script>js</script></div>
ContentPage ==
    << [parent |-> 0, tag |-> "div", cls |-> <<"page", "-", "body">>, data |-> <<>>],
       [parent |-> 1, tag |-> TextTag, cls |-> <<>>, data |-> <<"t">>],
       [parent |-> 1, tag |-> "script", cls |-> <<>>, data |-> <<>>],
       [parent |-> 3, tag |-> TextTag, cls |-> <<>>, data |-> <<"js">>] >>

\* text alone
PlainPage ==
    << [parent |-> 0, tag |-> TextTag, cls |-> <<>>, data |-> <<" ", "u", " ", " ", "v", NL>>] >>

Responses ==
    { [kind |-> "ConnectionError", body |-> <<>>],
      [kind |-> "HTTPError", body |-> PlainPage] }
    \cup { [kind |-> "ok", body |-> b] : b \in {<<>>, ScriptOnlyPage, ContentPage, PlainPage} }

\* "**Items**", a line break, "# xy": a match of the first concept pattern, which
\* stops at a line starting with ** or ##, not at one starting with "# "
ConceptTokHeading(i) ==
    <<"*", "*", "I", "t", "e", "m", "s", "*", "*", NL, "#", " ">> \o Tok2(i)

FoundCounts(c) ==
    [concepts |-> OverPatterns([i \in 1..c.concepts |-> ConceptTokHeading(i)], 1,
                               NumConceptPatterns),
     endpoints |-> [i \in 1..c.endpoints |-> EndpointTok(i)],
     params |-> OverPatterns([i \in 1..c.params |-> ParamTok(i)], 1, NumParamPatterns - 1)
                \o << <<>> >>,
     fields |-> OverPatterns([i \in 1..c.fields |-> FieldTok(i)], 1, NumFieldPatterns),
     events |-> [i \in 1..c.events |-> EventTok(i)]]

Counts ==
    [concepts : 0..MaxFound, endpoints : 0..MaxFound, params : 0..MaxFound,
     fields : 0..MaxFound, events : 0..MaxFound]

\* what re.findall may return on a text: nothing on the empty text
FindAllOn(text) ==
    IF text = <<>> THEN {FoundNothing} ELSE {FoundCounts(c) : c \in Counts}

(***************************************************************************)
(* main and generate_llms_txt_from_docs, step by step (lines 248-380)      *)
(***************************************************************************)
\* the order were line 345 to come before lines 339-340
ThenValidateFirst(step, fetched) ==
    CASE step = "start" -> "fetch"
      [] step = "fetch" -> IF fetched THEN "extract" ELSE "static"
      [] step = "extract" -> "clean"
      [] step = "clean" -> "harvest"
      [] step = "harvest" -> "sections"
      [] step = "sections" -> "static"
      [] step = "static" -> "validate"
      [] step = "validate" -> "write"
      [] step = "write" -> "finish"
      [] step = "finish" -> "main"
      [] OTHER -> "exit"

\* the step that follows a step in the code
Then(step, fetched) ==
    CASE step = "start" -> "fetch"                                   \* lines 262-268
      [] step = "fetch" -> IF fetched THEN "extract" ELSE "static"   \* lines 272-273
      [] step = "extract" -> "clean"                                 \* line 274
      [] step = "clean" -> "harvest"                                 \* line 275
      [] step = "harvest" -> "sections"                              \* line 276
      [] step = "sections" -> "static"                               \* lines 279-308
      [] step = "static" -> "write"                                  \* lines 311-336
      [] step = "write" -> "validate"                                \* lines 339-340
      [] step = "validate" -> "finish"                               \* line 345
      [] step = "finish" -> "main"                                   \* lines 347-355
      [] OTHER -> "exit"                                             \* lines 372-380

Init ==
    /\ pc = "start" /\ steps = <<>> /\ response = NoResponse /\ spec_html = <<>>
    /\ llms_content = <<>> /\ file = <<>> /\ writes = 0 /\ returned = "none"
    /\ main_outcome = "none"
    /\ CleanIdle /\ ValIdle /\ InfoIdle /\ HtmlIdle /\ PairIdle

Step(name) ==
    /\ pc = name
    /\ steps' = Append(steps, name)

\* lines 262-268
GenStart ==
    /\ Step("start")
    /\ llms_content' = TitleLines
    /\ pc' = Then("start", FALSE)
    /\ UNCHANGED <<response, spec_html, file, writes, returned, main_outcome,
                   cleanVars, valVars, infoVars, htmlVars, pairVars>>

\* line 272; an exception of fetch_web_content would pass through to main
GenFetch ==
    /\ Step("fetch")
    /\ \E resp \in Responses :
          LET got == fetch_web_content(resp)
          IN /\ response' = resp
             /\ spec_html' = got.text
             /\ returned' = IF got.raised THEN "Exception" ELSE returned
             /\ pc' = IF got.raised THEN "main" ELSE Then("fetch", got.text # <<>>)
    /\ UNCHANGED <<llms_content, file, writes, main_outcome,
                   cleanVars, valVars, infoVars, htmlVars, pairVars>>

\* line 274
GenExtract ==
    /\ Step("extract")
    /\ html_content' = spec_html
    /\ mdx_text' = extract_mdx_like_content_from_html(spec_html)
    /\ extracted' = {"mdx"}
    /\ pc' = Then("extract", TRUE)
    /\ UNCHANGED <<flat_text, response, spec_html, llms_content, file, writes, returned,
                   main_outcome, cleanVars, valVars, infoVars, pairVars>>

\* line 275
GenClean ==
    /\ Step("clean")
    /\ content' = mdx_text
    /\ once' = clean_markdown_content(mdx_text)
    /\ passes' = 1
    /\ pc' = Then("clean", TRUE)
    /\ UNCHANGED <<twice, response, spec_html, llms_content, file, writes, returned,
                   main_outcome, valVars, infoVars, htmlVars, pairVars>>

\* line 276
GenHarvest ==
    /\ Step("harvest")
    /\ \E f \in FindAllOn(once) :
          /\ found' = f
          /\ key_info' = extract_key_info_from_content(f)
    /\ harvested' = TRUE
    /\ pc' = Then("harvest", TRUE)
    /\ UNCHANGED <<response, spec_html, llms_content, file, writes, returned,
                   main_outcome, cleanVars, valVars, htmlVars, pairVars>>

\* lines 279-308
GenSections ==
    /\ Step("sections")
    /\ llms_content' = llms_content \o SectionsFor(key_info)
    /\ pc' = Then("sections", TRUE)
    /\ UNCHANGED <<response, spec_html, file, writes, returned, main_outcome,
                   cleanVars, valVars, infoVars, htmlVars, pairVars>>

\* lines 311-336
GenStatic ==
    /\ Step("static")
    /\ llms_content' = llms_content \o StaticLines
    /\ pc' = Then("static", spec_html # <<>>)
    /\ UNCHANGED <<response, spec_html, file, writes, returned, main_outcome,
                   cleanVars, valVars, infoVars, htmlVars, pairVars>>

\* lines 339-340
GenWrite ==
    /\ Step("write")
    /\ file' = Join(llms_content)
    /\ writes' = writes + 1
    /\ pc' = Then("write", spec_html # <<>>)
    /\ UNCHANGED <<response, spec_html, llms_content, returned, main_outcome,
                   cleanVars, valVars, infoVars, htmlVars, pairVars>>

\* line 345
GenValidate ==
    /\ Step("validate")
    /\ val_content' = file
    /\ validation_results' = validate_llms_txt(file)
    /\ val_done' = TRUE
    /\ pc' = Then("validate", spec_html # <<>>)
    /\ UNCHANGED <<response, spec_html, llms_content, file, writes, returned,
                   main_outcome, cleanVars, infoVars, htmlVars, pairVars>>

\* lines 347-355
GenFinish ==
    /\ Step("finish")
    /\ returned' = IF validation_results.valid THEN "True" ELSE "ValueError"
    /\ pc' = Then("finish", spec_html # <<>>)
    /\ UNCHANGED <<response, spec_html, llms_content, file, writes, main_outcome,
                   cleanVars, valVars, infoVars, htmlVars, pairVars>>

\* lines 370-380
MainDone ==
    /\ Step("main")
    /\ main_outcome' = IF returned = "True" THEN "success"
                       ELSE IF returned = "False" THEN "failed validation"
                       ELSE "raised"
    /\ pc' = Then("main", spec_html # <<>>)
    /\ UNCHANGED <<response, spec_html, llms_content, file, writes, returned,
                   cleanVars, valVars, infoVars, htmlVars, pairVars>>

Next ==
    \/ GenStart \/ GenFetch \/ GenExtract \/ GenClean \/ GenHarvest \/ GenSections
    \/ GenStatic \/ GenWrite \/ GenValidate \/ GenFinish \/ MainDone

Spec == Init /\ [][Next]_vars

(***************************************************************************)
(* Properties of the pipeline                                              *)
(***************************************************************************)
Count(b) == IF b THEN 1 ELSE 0

\* the conditional sections a Key Info Record calls for
SectionsCalledFor(info) ==
    Count(info.core_concepts # <<>>)
    + Count(info.endpoints # <<>> \/ info.parameters # <<>>)
    + Count(info.streaming_events # <<>>)

\* the lines of a document that are headings of level two or three
HeadingsOf(lines) ==
    SelectSeq(lines, LAMBDA l : StartsWith(l, <<"#", "#", " ">>)
                                \/ StartsWith(l, <<"#", "#", "#", " ">>))

ExpectedHeadings(info) ==
    (IF info.core_concepts # <<>> THEN << <<"#", "#", " ", "Core Concepts">> >> ELSE <<>>)
    \o (IF info.endpoints # <<>> \/ info.parameters # <<>>
        THEN << <<"#", "#", " ", "API">> >> ELSE <<>>)
    \o (IF info.endpoints # <<>> THEN << <<"#", "#", "#", " ", "Endpoints">> >> ELSE <<>>)
    \o (IF info.parameters # <<>>
        THEN << <<"#", "#", "#", " ", "Key Parameters">> >> ELSE <<>>)
    \o (IF info.streaming_events # <<>>
        THEN << <<"#", "#", " ", "Streaming Events">> >> ELSE <<>>)
    \o << <<"#", "#", " ", "Resources">>, <<"#", "#", " ", "Documentation">>,
          <<"#", "#", " ", "Examples">> >>

Did(name) == \E k \in 1..Len(steps) : steps[k] = name

\* C1: whatever the fetch brought (a failure, an empty page, a page with any
\* harvest, an empty harvest included), the written file is reported valid, has
\* exactly one line starting with "# " and exactly one starting with "> ", its
\* h2_count is 3 plus the number of conditional sections called for (3 when
\* nothing was harvested), and the validation error is never raised.
C1_WrittenDocumentIsValid ==
    /\ returned # "ValueError"
    /\ val_done =>
          /\ val_content = file
          /\ validation_results.valid
          /\ Cardinality(LinesWith(file, <<"#", " ">>)) = 1
          /\ Cardinality(LinesWith(file, <<">", " ">>)) = 1
          /\ validation_results.h2_count = 3 + SectionsCalledFor(key_info)
          /\ Cardinality(LinesWith(file, <<"#", "#", " ">>)) = validation_results.h2_count
          /\ (key_info = EmptyKeyInfo => validation_results.h2_count = 3)

\* a page whose harvest fills every list: six H2 sections, two H3 sub-headings
C1_Witness ==
    /\ val_done /\ returned = "True"
    /\ key_info.core_concepts # <<>> /\ key_info.endpoints # <<>>
    /\ key_info.parameters # <<>> /\ key_info.streaming_events # <<>>
    /\ validation_results.h2_count = 6
    /\ LinesWith(file, <<"#", "#", "#", " ">>) # {}

\* C2: once assembled, the document starts with the title and the blockquote,
\* and its headings are, in this order: Core Concepts iff core_concepts is
\* non-empty, API iff endpoints or parameters is, Endpoints iff endpoints is,
\* Key Parameters iff parameters is, Streaming Events iff streaming_events is,
\* then always Resources, Documentation, Examples.
C2_ConditionalSectionsInOrder ==
    Did("static") =>
        /\ llms_content[1] = <<"#", " ", "Open Responses">>
        /\ StartsWith(llms_content[3], <<">", " ">>)
        /\ HeadingsOf(llms_content) = ExpectedHeadings(key_info)
        /\ \A k \in 1..Len(llms_content) :
              StartsWith(llms_content[k], <<"#">>) \/ StartsWith(llms_content[k], <<">">>)
                 => k \in {1, 3} \/ llms_content[k] \in Range(ExpectedHeadings(key_info))

\* endpoints alone: API and Endpoints, no Key Parameters, no Streaming Events
C2_Witness ==
    /\ Did("static")
    /\ key_info.core_concepts = <<>> /\ key_info.endpoints # <<>>
    /\ key_info.parameters = <<>> /\ key_info.streaming_events = <<>>
    /\ Len(HeadingsOf(llms_content)) = 5

\* C7: when the GET raises a network error or answers with an error status,
\* fetch_web_content gives the empty string and raises nothing, no extraction
\* stage runs, the file written is the title, the blockquote and the three static
\* sections, and the run ends in success.
C7_FetchFailureRecovered ==
    response.kind \in {"ConnectionError", "HTTPError"} =>
        /\ spec_html = <<>>
        /\ returned \in {"none", "True"}
        /\ ~Did("extract") /\ ~Did("clean") /\ ~Did("harvest") /\ ~Did("sections")
        /\ Did("write") => file = Join(TitleLines \o StaticLines)
        /\ val_done => validation_results.valid /\ validation_results.h2_count = 3
        /\ pc = "exit" => Did("write") /\ main_outcome = "success"

\* an error status whose response has a body
C7_Witness ==
    /\ response.kind = "HTTPError" /\ response.body # <<>>
    /\ pc = "exit" /\ writes = 1 /\ main_outcome = "success"
    /\ LinesWith(file, <<"#", "#", " ">>) # {}

FullOrder ==
    <<"start", "fetch", "extract", "clean", "harvest", "sections", "static", "write",
      "validate", "finish", "main">>

ShortOrder == <<"start", "fetch", "static", "write", "validate", "finish", "main">>

IsPrefix(a, b) == Len(a) <= Len(b) /\ SubSeq(b, 1, Len(a)) = a

generate_llms_txt_from_docs(docs_dir, resp, matches) ==
    LET got == fetch_web_content(resp)                              \* line 272
        info == extract_key_info_from_content(matches)              \* line 276
        lines == TitleLines                                         \* lines 265-268
                 \o (IF got.text # <<>> THEN SectionsFor(info) ELSE <<>>)
                 \o StaticLines
        written == Join(lines)                                      \* line 340
        results == validate_llms_txt(written)                       \* line 345
    IN [file |-> written, results |-> results,
        returned |-> IF results.valid THEN "True" ELSE "ValueError"]

\* the cleaned text generation works on (lines 272-275)
TextOf(resp) ==
    LET got == fetch_web_content(resp)
    IN IF got.text = <<>> THEN <<>>
       ELSE clean_markdown_content(extract_mdx_like_content_from_html(got.text))

DocsDirs == {"src/pages", "elsewhere"}

NoCounts == [concepts |-> 0, endpoints |-> 0, params |-> 0, fields |-> 0, events |-> 0]

CountsOn(resp) == IF TextOf(resp) = <<>> THEN {NoCounts} ELSE Counts

\* the call main makes (lines 363, 372) and a call with any documentation
\* directory, on the same response, whose pages differ at most in what the
\* response-field patterns find
PairsOn(resp) ==
    { << [docs_dir |-> "src/pages", response |-> resp, found |-> FoundCounts(c)],
         [docs_dir |-> d, response |-> resp,
          found |-> FoundCounts([c EXCEPT !.fields = k])] >> :
      d \in DocsDirs, c \in CountsOn(resp),
      k \in IF TextOf(resp) = <<>> THEN {0} ELSE 0..MaxFound }

\* a failed fetch, a page with no text, a page with text
PairResponses ==
    { [kind |-> "HTTPError", body |-> PlainPage],
      [kind |-> "ok", body |-> ScriptOnlyPage],
      [kind |-> "ok", body |-> ContentPage] }

NotRun == [file |-> <<>>, results |-> NoResults, returned |-> "none"]

InitPair ==
    /\ runs \in UNION {PairsOn(resp) : resp \in PairResponses}
    /\ outputs = <<NotRun, NotRun>>
    /\ CleanIdle /\ ValIdle /\ InfoIdle /\ HtmlIdle /\ GenIdle

GenerateRun(r) ==
    /\ outputs[r] = NotRun
    /\ outputs' = [outputs EXCEPT ![r] = generate_llms_txt_from_docs(
                                            runs[r].docs_dir, runs[r].response,
                                            runs[r].found)]
    /\ UNCHANGED <<runs, cleanVars, valVars, infoVars, htmlVars, genVars>>

NextPair == \E r \in 1..2 : GenerateRun(r)

SpecPair == InitPair /\ [][NextPair]_vars

InfoOf(run) == extract_key_info_from_content(run.found)

\* C10: two runs on the same fetch outcome whose Key Info Records agree on
\* core_concepts, endpoints, parameters and streaming_events, whatever their
\* response_fields and their docs_dir, write the same file and get the same
\* validation result.
C10_FieldsAndDocsDirUnused ==
    (/\ runs # <<>>
     /\ outputs[1] # NotRun /\ outputs[2] # NotRun
     /\ runs[1].response = runs[2].response
     /\ [InfoOf(runs[1]) EXCEPT !.response_fields = <<>>]
           = [InfoOf(runs[2]) EXCEPT !.response_fields = <<>>])
    => /\ outputs[1].file = outputs[2].file
       /\ outputs[1].results = outputs[2].results
       /\ outputs[1].returned = outputs[2].returned

\* both runs done, on different directories and different response fields, of
\* a page that has conditional sections
C10_Witness ==
    /\ runs # <<>>
    /\ outputs[1] # NotRun /\ outputs[2] # NotRun
    /\ runs[1].docs_dir # runs[2].docs_dir
    /\ InfoOf(runs[1]).response_fields # InfoOf(runs[2]).response_fields
    /\ InfoOf(runs[1]).response_fields # <<>>
    /\ InfoOf(runs[1]).core_concepts # <<>>
    /\ outputs[1].results.h2_count > 3
    /\ outputs[1].file = outputs[2].file

====
